---- MODULE Spec2Model ----
(***************************************************************************)
(* Model of arabic_to_mp3.py (EpubToMp3Converter): the text segmenter      *)
(* (split_text_into_chunks, _split_by_words), the synthesis adapter        *)
(* (text_to_speech) and the chunked conversion loops.                      *)
(*                                                                         *)
(* A Python str is a sequence of one-character strings.  The character     *)
(* "?" stands for the Arabic question mark U+061F of the source.           *)
(***************************************************************************)
EXTENDS Integers, Sequences, FiniteSets

(* ------------------------------ bounds -------------------------------- *)

MaxLen == 6

MaxChunk == 4

MaxRetry == 3

MaxChapters == 2

ChunkSize == 3

(* ---------------------------- characters ------------------------------ *)

\* The characters Python counts as whitespace, the same for \s, str.strip
\* and str.split.  A character that cannot be written here is named by its
\* code point.
Whitespace ==
    { "\t", "\n", "U+000B", "\f", "\r", "U+001C", "U+001D", "U+001E", "U+001F",
      " ", "U+0085", "U+00A0", "U+1680",
      "U+2000", "U+2001", "U+2002", "U+2003", "U+2004", "U+2005", "U+2006",
      "U+2007", "U+2008", "U+2009", "U+200A",
      "U+2028", "U+2029", "U+202F", "U+205F", "U+3000" }

Terminators == {".", "?", "!"}

Alphabet == {"a", "b", " ", ".", "!"}

RECURSIVE SeqsUpTo(_, _)
SeqsUpTo(S, n) ==
    IF n = 0 THEN {<< >>}
    ELSE LET shorter == SeqsUpTo(S, n - 1)
         IN  shorter \cup {Append(s, c) : s \in {t \in shorter : Len(t) = n - 1}, c \in S}

\* Texts with the Arabic question mark, written "?".
QuestionAlphabet == {"a", " ", ".", "?"}

\* Texts with whitespace other than the space: carriage return and the
\* no-break space.
WideSpaceAlphabet == {"a", ".", "\r", "U+00A0"}

Texts ==
    SeqsUpTo(Alphabet, MaxLen) \cup SeqsUpTo(QuestionAlphabet, MaxLen)
        \cup SeqsUpTo(WideSpaceAlphabet, MaxLen)

\* The chapter texts get_chapters yields: only texts that are not blank.
ChapterTexts ==
    { <<"a">>,
      <<"a", ".", " ", "b">> }

ChapterLists == UNION {[1..n -> ChapterTexts] : n \in 0..MaxChapters}

\* The text of the whole book: every chapter text followed by a blank line.
RECURSIVE FullText(_)
FullText(chs) ==
    IF chs = << >> THEN << >>
    ELSE FullText(SubSeq(chs, 1, Len(chs) - 1)) \o chs[Len(chs)] \o <<"\n", "\n">>

BookTexts == {FullText(chs) : chs \in ChapterLists \ {<< >>}}

(* ------------------------- str primitives ----------------------------- *)

IsSpace(c) == c \in Whitespace

RECURSIVE lstrip(_)
lstrip(s) ==
    IF s = << >> THEN << >>
    ELSE IF IsSpace(Head(s)) THEN lstrip(Tail(s)) ELSE s

RECURSIVE rstrip(_)
rstrip(s) ==
    IF s = << >> THEN << >>
    ELSE IF IsSpace(s[Len(s)]) THEN rstrip(SubSeq(s, 1, Len(s) - 1)) ELSE s

strip_TrailingOnly(s) == rstrip(s)

strip(s) == rstrip(lstrip(s))

endswith_terminator(s) == s # << >> /\ s[Len(s)] \in Terminators

RECURSIVE split_from(_, _, _)
split_from(s, i, word) ==
    IF i > Len(s)
    THEN IF word = << >> THEN << >> ELSE <<word>>
    ELSE IF IsSpace(s[i])
         THEN (IF word = << >> THEN << >> ELSE <<word>>) \o split_from(s, i + 1, << >>)
         ELSE split_from(s, i + 1, Append(word, s[i]))

split(s) == split_from(s, 1, << >>)

RECURSIVE join(_)
join(parts) ==
    IF parts = << >> THEN << >>
    ELSE IF Len(parts) = 1 THEN parts[1]
    ELSE parts[1] \o <<" ">> \o join(Tail(parts))

RECURSIVE SkipSpace(_, _)
SkipSpace(s, i) ==
    IF i <= Len(s) /\ IsSpace(s[i]) THEN SkipSpace(s, i + 1) ELSE i

RECURSIVE re_split_from(_, _, _)
re_split_from(s, i, piece) ==
    IF i > Len(s) THEN <<piece>>
    ELSE IF s[i] \in Terminators /\ i + 1 <= Len(s) /\ IsSpace(s[i + 1])
         THEN <<piece>> \o re_split_from(s, SkipSpace(s, i + 1), << >>)
         ELSE re_split_from(s, i + 1, Append(piece, s[i]))

re_split(s) == re_split_from(s, 1, << >>)

(* --------------------------- _split_by_words -------------------------- *)

WordOverflow_NoSpace(current_chunk, word, max) ==
    Len(current_chunk) + Len(word) > max

WordOverflow(current_chunk, word, max) ==
    Len(current_chunk) + Len(word) + 1 > max

FlushChunk_Drop(chunks, current_chunk) == chunks

FlushChunk_Untested(chunks, current_chunk) == Append(chunks, strip(current_chunk))

FlushChunk(chunks, current_chunk) ==
    IF strip(current_chunk) # << >>
    THEN Append(chunks, strip(current_chunk))
    ELSE chunks

Extend(current_chunk, piece) ==
    IF current_chunk # << >> THEN current_chunk \o <<" ">> \o piece ELSE piece

RECURSIVE word_loop(_, _, _, _, _)
word_loop(words, k, chunks, current_chunk, max) ==
    IF k > Len(words) THEN FlushChunk(chunks, current_chunk)
    ELSE IF WordOverflow(current_chunk, words[k], max)
         THEN word_loop(words, k + 1, FlushChunk(chunks, current_chunk), words[k], max)
         ELSE word_loop(words, k + 1, chunks, Extend(current_chunk, words[k]), max)

split_by_words(text, max) == word_loop(split(text), 1, << >>, << >>, max)

(* ------------------------ split_text_into_chunks ---------------------- *)

IsShort_Strict(text, max) == Len(text) < max

IsShort(text, max) == Len(text) <= max

ShortResult_Trimmed(text) == IF strip(text) = << >> THEN << >> ELSE <<strip(text)>>

ShortResult(text) == <<text>>

AddPunctuation_Always(sentence) == Append(sentence, ".")

AddPunctuation(sentence) ==
    IF endswith_terminator(sentence) THEN sentence ELSE Append(sentence, ".")

SentenceOverflow_NoSpace(current_chunk, sentence, max) ==
    Len(current_chunk) + Len(sentence) > max

SentenceOverflow(current_chunk, sentence, max) ==
    Len(current_chunk) + Len(sentence) + 1 > max

AllButLast(s) == IF s = << >> THEN << >> ELSE SubSeq(s, 1, Len(s) - 1)

LastOrEmpty(s) == IF s = << >> THEN << >> ELSE s[Len(s)]

\* One iteration of the sentence loop on an already stripped, non-empty,
\* punctuated sentence: the pair (chunks, current_chunk) after it.
sentence_step(st, sentence, max) ==
    IF SentenceOverflow(st.cur, sentence, max)
    THEN LET saved == FlushChunk(st.chunks, st.cur)
         IN  IF Len(sentence) > max
             THEN LET word_chunks == split_by_words(sentence, max)
                  IN  [chunks |-> saved \o AllButLast(word_chunks),
                       cur    |-> LastOrEmpty(word_chunks)]
             ELSE [chunks |-> saved, cur |-> sentence]
    ELSE [chunks |-> st.chunks, cur |-> Extend(st.cur, sentence)]

RECURSIVE sentence_loop(_, _, _, _)
sentence_loop(sentences, k, st, max) ==
    IF k > Len(sentences) THEN FlushChunk(st.chunks, st.cur)
    ELSE LET sentence == strip(sentences[k])
         IN  IF sentence = << >>
             THEN sentence_loop(sentences, k + 1, st, max)
             ELSE sentence_loop(sentences, k + 1,
                                sentence_step(st, AddPunctuation(sentence), max), max)

split_text_into_chunks(text, max) ==
    IF IsShort(text, max) THEN ShortResult(text)
    ELSE sentence_loop(re_split(text), 1, [chunks |-> << >>, cur |-> << >>], max)

(* --------------------------- text_to_speech --------------------------- *)

DefaultRetryCount == 3

\* What cancellation_details.error_details says: whether its lower-cased
\* text contains "quota", and whether it contains "rate".
ErrorDetails == [quota : BOOLEAN, rate : BOOLEAN]

\* What one attempt meets: the synthesizer raises ("exception"), returns
\* None ("null"), or returns a result whose reason is
\* SynthesizingAudioCompleted ("completed", and then the write of the file
\* goes through or raises), Canceled ("canceled") or anything else ("failed").
SynthResults ==
    [kind : {"exception", "null", "failed"}, details : {[quota |-> FALSE, rate |-> FALSE]},
     write_ok : {TRUE}]
    \cup [kind : {"completed"}, details : {[quota |-> FALSE, rate |-> FALSE]},
          write_ok : BOOLEAN]
    \cup [kind : {"canceled"}, details : ErrorDetails, write_ok : {TRUE}]

IsRateLimited(details) == details.quota \/ details.rate

RateLimitWait(attempt_index) == (attempt_index + 1) * 5

RetryWait_Flat(attempt_index) == 2

RetryWait(attempt_index) == (attempt_index + 1) * 2

MayRetry_OffByOne(attempt_index, count) == attempt_index < count

MayRetry(attempt_index, count) == attempt_index < count - 1

OnNullResult_Raise == "except"

OnNullResult == "return_false"

WriteFile_Skip(files, path) == files

WriteFile(files, path) == Append(files, path)

OnCompleted(res) == IF res.write_ok THEN "return_true" ELSE "except"

OnCanceled(res) == IF IsRateLimited(res.details) THEN "continue" ELSE "except"

\* The branch of the loop body one attempt takes.
Branch(res) ==
    IF res.kind = "exception" THEN "except"
    ELSE IF res.kind = "null" THEN OnNullResult
    ELSE IF res.kind = "completed" THEN OnCompleted(res)
    ELSE IF res.kind = "canceled" THEN OnCanceled(res)
    ELSE "except"

\* How an attempt is remembered: a canceled one by its classification.
Label(res) ==
    IF res.kind = "canceled"
    THEN (IF res.details.quota \/ res.details.rate THEN "rate_limited" ELSE "canceled_other")
    ELSE IF res.kind = "completed" /\ ~res.write_ok THEN "write_error"
    ELSE res.kind

(* --------------------------- output file names ------------------------ *)

OutputPath(chapter_idx, chunk_idx) == <<"Ch", chapter_idx + 1, "Part", chunk_idx + 1>>

(* ------------------------------- state -------------------------------- *)

VARIABLES
    text, max_chunk_size, seg_pc, result,
    tts_pc, retry_count, attempt, output_path, tts_ret, outcomes, waits, written,
    orch_pc, entry, chapters, chapter_index, loop_i, text_chunks, chunk_index,
    output_files, all_output_files, returned, events

segVars == <<text, max_chunk_size, seg_pc, result>>

ttsVars == <<tts_pc, retry_count, attempt, output_path, tts_ret, outcomes, waits, written>>

orchVars == <<orch_pc, entry, chapters, chapter_index, loop_i, text_chunks, chunk_index,
              output_files, all_output_files, returned, events>>

vars == <<segVars, ttsVars, orchVars>>

SegIdle ==
    /\ text = << >>
    /\ max_chunk_size = ChunkSize
    /\ seg_pc = "idle"
    /\ result = << >>

TtsIdle ==
    /\ tts_pc = "idle"
    /\ retry_count = DefaultRetryCount
    /\ attempt = 0
    /\ output_path = << >>
    /\ tts_ret = "none"
    /\ outcomes = << >>
    /\ waits = << >>
    /\ written = << >>

OrchIdle ==
    /\ orch_pc = "idle"
    /\ entry = "none"
    /\ chapters = << >>
    /\ chapter_index = 0
    /\ loop_i = 0
    /\ text_chunks = << >>
    /\ chunk_index = 0
    /\ output_files = << >>
    /\ all_output_files = << >>
    /\ returned = << >>
    /\ events = << >>

(* ----------------------------- segmenter ------------------------------ *)

InitSeg ==
    /\ text \in Texts \cup BookTexts
    /\ max_chunk_size \in 1..MaxChunk
    /\ seg_pc = "input"
    /\ result = << >>
    /\ TtsIdle
    /\ OrchIdle

CallSplitTextIntoChunks ==
    /\ seg_pc = "input"
    /\ result' = split_text_into_chunks(text, max_chunk_size)
    /\ seg_pc' = "chunks"
    /\ UNCHANGED <<text, max_chunk_size, ttsVars, orchVars>>

CallSplitByWords ==
    /\ seg_pc = "input"
    /\ result' = split_by_words(text, max_chunk_size)
    /\ seg_pc' = "words"
    /\ UNCHANGED <<text, max_chunk_size, ttsVars, orchVars>>

NextSeg == CallSplitTextIntoChunks \/ CallSplitByWords

SpecSeg == InitSeg /\ [][NextSeg]_vars

(* --------------------------- text_to_speech --------------------------- *)

\* The except clause: wait and go on to the next attempt, or re-raise.
ExceptHandler ==
    IF MayRetry(attempt, retry_count)
    THEN /\ waits' = Append(waits, RetryWait(attempt))
         /\ attempt' = attempt + 1
         /\ UNCHANGED <<tts_pc, tts_ret, written>>
    ELSE /\ tts_pc' = "raised"
         /\ tts_ret' = "raised"
         /\ UNCHANGED <<attempt, waits, written>>

\* One iteration of "for attempt in range(retry_count)".
TtsAttempt ==
    /\ tts_pc = "attempt"
    /\ attempt < retry_count
    /\ \E res \in SynthResults :
          /\ outcomes' = Append(outcomes, Label(res))
          /\ CASE Branch(res) = "return_false" ->
                    /\ tts_pc' = "returned"
                    /\ tts_ret' = "false"
                    /\ UNCHANGED <<attempt, waits, written>>
               [] Branch(res) = "return_true" ->
                    /\ written' = WriteFile(written, output_path)
                    /\ tts_pc' = "returned"
                    /\ tts_ret' = "true"
                    /\ UNCHANGED <<attempt, waits>>
               [] Branch(res) = "continue" ->
                    /\ waits' = Append(waits, RateLimitWait(attempt))
                    /\ attempt' = attempt + 1
                    /\ UNCHANGED <<tts_pc, tts_ret, written>>
               [] OTHER -> ExceptHandler
    /\ UNCHANGED <<retry_count, output_path, segVars, orchVars>>

\* The for loop has run out of attempts: the final "return False".
TtsLoopExit ==
    /\ tts_pc = "attempt"
    /\ attempt >= retry_count
    /\ tts_pc' = "returned"
    /\ tts_ret' = "false"
    /\ UNCHANGED <<retry_count, attempt, output_path, outcomes, waits, written,
                   segVars, orchVars>>

NextTts == TtsAttempt \/ TtsLoopExit

InitTts ==
    /\ SegIdle
    /\ OrchIdle
    /\ tts_pc = "attempt"
    /\ retry_count \in 1..MaxRetry
    /\ attempt = 0
    /\ output_path = OutputPath(0, 0)
    /\ tts_ret = "none"
    /\ outcomes = << >>
    /\ waits = << >>
    /\ written = << >>

SpecTts == InitTts /\ [][NextTts]_vars

(* ------------------------ chunked conversion -------------------------- *)

ChapterIndexes == (-2)..MaxChapters

\* chapters[chapter_index], a Python list index: negative ones count from the end.
ChapterAt(idx) == chapters[IF idx >= 0 THEN idx + 1 ELSE Len(chapters) + idx + 1]

OnChunkException_Abort == "break"

OnChunkException == "continue"

Collect(files, path, ret) == IF ret = "true" THEN Append(files, path) ELSE files

InitOrch ==
    /\ SegIdle
    /\ TtsIdle
    /\ entry \in {"all", "chapter"}
    /\ chapters \in ChapterLists
    /\ chapter_index \in (IF entry = "chapter" THEN ChapterIndexes ELSE {0})
    /\ orch_pc = (IF entry = "all" THEN "all_entry" ELSE "chapter_entry")
    /\ loop_i = 0
    /\ text_chunks = << >>
    /\ chunk_index = 0
    /\ output_files = << >>
    /\ all_output_files = << >>
    /\ returned = << >>
    /\ events = << >>

\* convert_all_chapters_chunked up to its loop.
AllStart ==
    /\ orch_pc = "all_entry"
    /\ IF chapters = << >>
       THEN /\ returned' = << >>
            /\ orch_pc' = "done"
       ELSE /\ orch_pc' = "all_loop"
            /\ UNCHANGED returned
    /\ loop_i' = 0
    /\ all_output_files' = << >>
    /\ UNCHANGED <<entry, chapters, chapter_index, text_chunks, chunk_index,
                   output_files, events, segVars, ttsVars>>

\* The loop of convert_all_chapters_chunked calls convert_chapter_chunked(i).
AllCallChapter ==
    /\ orch_pc = "all_loop"
    /\ loop_i < Len(chapters)
    /\ chapter_index' = loop_i
    /\ orch_pc' = "chapter_entry"
    /\ UNCHANGED <<entry, chapters, loop_i, text_chunks, chunk_index, output_files,
                   all_output_files, returned, events, segVars, ttsVars>>

AllFinish ==
    /\ orch_pc = "all_loop"
    /\ loop_i >= Len(chapters)
    /\ returned' = all_output_files
    /\ orch_pc' = "done"
    /\ UNCHANGED <<entry, chapters, chapter_index, loop_i, text_chunks, chunk_index,
                   output_files, all_output_files, events, segVars, ttsVars>>

\* convert_chapter_chunked returns files: to its caller, and when that is the
\* loop of convert_all_chapters_chunked, the rest of the loop body.
ChapterReturn(files) ==
    IF entry = "chapter"
    THEN /\ returned' = files
         /\ orch_pc' = "done"
         /\ UNCHANGED <<all_output_files, loop_i, events>>
    ELSE /\ all_output_files' = all_output_files \o files
         /\ events' = IF loop_i < Len(chapters) - 1
                      THEN Append(events, <<"sleep", 3>>)
                      ELSE events
         /\ loop_i' = loop_i + 1
         /\ orch_pc' = "all_loop"
         /\ UNCHANGED returned

\* convert_chapter_chunked up to its loop.
ChapterStart ==
    /\ orch_pc = "chapter_entry"
    /\ IF chapters = << >> \/ chapter_index >= Len(chapters)
       THEN /\ ChapterReturn(<< >>)
            /\ UNCHANGED <<text_chunks, chunk_index, output_files>>
       ELSE IF chapter_index < -Len(chapters)
       THEN /\ orch_pc' = "raised"
            /\ UNCHANGED <<text_chunks, chunk_index, output_files, all_output_files,
                           loop_i, events, returned>>
       ELSE /\ text_chunks' = split_text_into_chunks(ChapterAt(chapter_index), max_chunk_size)
            /\ chunk_index' = 0
            /\ output_files' = << >>
            /\ orch_pc' = "chunk_loop"
            /\ UNCHANGED <<all_output_files, loop_i, events, returned>>
    /\ UNCHANGED <<entry, chapters, chapter_index, segVars, ttsVars>>

\* The chunk loop calls text_to_speech(chunk_text, output_path).
ChunkCallTts ==
    /\ orch_pc = "chunk_loop"
    /\ chunk_index < Len(text_chunks)
    /\ output_path' = OutputPath(chapter_index, chunk_index)
    /\ events' = Append(events, <<"tts", OutputPath(chapter_index, chunk_index),
                                  text_chunks[chunk_index + 1]>>)
    /\ tts_pc' = "attempt"
    /\ retry_count' = DefaultRetryCount
    /\ attempt' = 0
    /\ tts_ret' = "none"
    /\ outcomes' = << >>
    /\ waits' = << >>
    /\ orch_pc' = "in_tts"
    /\ UNCHANGED <<written, entry, chapters, chapter_index, loop_i, text_chunks,
                   chunk_index, output_files, all_output_files, returned, segVars>>

\* text_to_speech has returned or raised: the rest of the loop body.  The
\* frame of the finished call (its locals) is gone.
ChunkHandleResult ==
    /\ orch_pc = "in_tts"
    /\ tts_pc \in {"returned", "raised"}
    /\ IF tts_pc = "returned"
       THEN /\ output_files' = Collect(output_files, output_path, tts_ret)
            /\ events' = events \o << <<"ret", output_path, tts_ret>>, <<"sleep", 1>> >>
            /\ chunk_index' = chunk_index + 1
       ELSE /\ output_files' = output_files
            /\ events' = Append(events, <<"ret", output_path, tts_ret>>)
            /\ chunk_index' = IF OnChunkException = "continue"
                              THEN chunk_index + 1
                              ELSE Len(text_chunks)
    /\ tts_pc' = "idle"
    /\ attempt' = 0
    /\ output_path' = << >>
    /\ tts_ret' = "none"
    /\ outcomes' = << >>
    /\ waits' = << >>
    /\ orch_pc' = "chunk_loop"
    /\ UNCHANGED <<retry_count, written, entry, chapters, chapter_index, loop_i,
                   text_chunks, all_output_files, returned, segVars>>

ChunkLoopExit ==
    /\ orch_pc = "chunk_loop"
    /\ chunk_index >= Len(text_chunks)
    /\ ChapterReturn(output_files)
    /\ UNCHANGED <<entry, chapters, chapter_index, text_chunks, chunk_index, output_files,
                   segVars, ttsVars>>

NextOrch ==
    \/ AllStart
    \/ AllCallChapter
    \/ AllFinish
    \/ ChapterStart
    \/ ChunkCallTts
    \/ ChunkHandleResult
    \/ ChunkLoopExit
    \/ TtsAttempt
    \/ TtsLoopExit

SpecOrch == InitOrch /\ [][NextOrch]_vars

FairSpecOrch == SpecOrch /\ WF_vars(NextOrch)

(* ----------------------- whole-book conversion ------------------------ *)

BookPath(chunk_idx) == <<"Part", chunk_idx + 1>>

InitBook ==
    /\ SegIdle
    /\ TtsIdle
    /\ entry = "book"
    /\ chapters \in ChapterLists
    /\ chapter_index = 0
    /\ orch_pc = "book_entry"
    /\ loop_i = 0
    /\ text_chunks = << >>
    /\ chunk_index = 0
    /\ output_files = << >>
    /\ all_output_files = << >>
    /\ returned = << >>
    /\ events = << >>

\* convert_entire_book_chunked up to its loop.
BookStart ==
    /\ orch_pc = "book_entry"
    /\ IF chapters = << >>
       THEN /\ returned' = << >>
            /\ orch_pc' = "done"
            /\ UNCHANGED text_chunks
       ELSE /\ text_chunks' = split_text_into_chunks(FullText(chapters), max_chunk_size)
            /\ orch_pc' = "book_loop"
            /\ UNCHANGED returned
    /\ chunk_index' = 0
    /\ output_files' = << >>
    /\ UNCHANGED <<entry, chapters, chapter_index, loop_i, all_output_files, events,
                   segVars, ttsVars>>

\* The chunk loop of the book calls text_to_speech(chunk_text, output_path).
BookCallTts ==
    /\ orch_pc = "book_loop"
    /\ chunk_index < Len(text_chunks)
    /\ output_path' = BookPath(chunk_index)
    /\ events' = Append(events, <<"tts", BookPath(chunk_index),
                                  text_chunks[chunk_index + 1]>>)
    /\ tts_pc' = "attempt"
    /\ retry_count' = DefaultRetryCount
    /\ attempt' = 0
    /\ tts_ret' = "none"
    /\ outcomes' = << >>
    /\ waits' = << >>
    /\ orch_pc' = "book_in_tts"
    /\ UNCHANGED <<written, entry, chapters, chapter_index, loop_i, text_chunks,
                   chunk_index, output_files, all_output_files, returned, segVars>>

\* text_to_speech has returned or raised: the rest of the book's loop body.
BookHandleResult ==
    /\ orch_pc = "book_in_tts"
    /\ tts_pc \in {"returned", "raised"}
    /\ IF tts_pc = "returned"
       THEN /\ output_files' = Collect(output_files, output_path, tts_ret)
            /\ events' = events \o << <<"ret", output_path, tts_ret>>, <<"sleep", 1>> >>
       ELSE /\ output_files' = output_files
            /\ events' = Append(events, <<"ret", output_path, tts_ret>>)
    /\ chunk_index' = chunk_index + 1
    /\ tts_pc' = "idle"
    /\ attempt' = 0
    /\ output_path' = << >>
    /\ tts_ret' = "none"
    /\ outcomes' = << >>
    /\ waits' = << >>
    /\ orch_pc' = "book_loop"
    /\ UNCHANGED <<retry_count, written, entry, chapters, chapter_index, loop_i,
                   text_chunks, all_output_files, returned, segVars>>

BookLoopExit ==
    /\ orch_pc = "book_loop"
    /\ chunk_index >= Len(text_chunks)
    /\ returned' = output_files
    /\ orch_pc' = "done"
    /\ UNCHANGED <<entry, chapters, chapter_index, loop_i, text_chunks, chunk_index,
                   output_files, all_output_files, events, segVars, ttsVars>>

NextBook ==
    \/ BookStart
    \/ BookCallTts
    \/ BookHandleResult
    \/ BookLoopExit
    \/ TtsAttempt
    \/ TtsLoopExit

\* Any of the three chunked conversions.
InitChunked == InitOrch \/ InitBook

NextChunked == NextOrch \/ NextBook

SpecChunked == InitChunked /\ [][NextChunked]_vars

(* ----------------------- segmenter properties ------------------------- *)

InputWords == split(text)

ChunkWords == split(join(result))

HasSpace(s) == \E i \in 1..Len(s) : IsSpace(s[i])

RECURSIVE Core(_)
Core(w) ==
    IF w # << >> /\ w[Len(w)] \in Terminators THEN Core(SubSeq(w, 1, Len(w) - 1)) ELSE w

Cores(ws) == [i \in 1..Len(ws) |-> Core(ws[i])]

NonEmpty(w) == w # << >>

SplitPath == seg_pc = "chunks" /\ Len(text) > max_chunk_size

\* C1: a text no longer than max_chunk_size comes back as the one-element
\* list holding that text unchanged: not trimmed, not split, no period added.
C1_ShortTextIsItself ==
    (seg_pc = "chunks" /\ Len(text) <= max_chunk_size) => result = <<text>>

C1_Witness ==
    /\ seg_pc = "chunks"
    /\ Len(text) = max_chunk_size
    /\ Len(text) >= 3
    /\ IsSpace(text[1])
    /\ IsSpace(text[Len(text)])
    /\ text[2] = "!"
    /\ result = <<text>>

\* C2 as stated: every chunk is at most max_chunk_size long unless it is
\* a single word of the input (up to its end punctuation) that is itself
\* longer than max_chunk_size.
C2_Original ==
    seg_pc = "chunks" =>
        \A i \in 1..Len(result) :
            \/ Len(result[i]) <= max_chunk_size
            \/ /\ ~HasSpace(result[i])
               /\ \E j \in 1..Len(InputWords) :
                      /\ Len(InputWords[j]) > max_chunk_size
                      /\ Core(InputWords[j]) = Core(result[i])

\* C2 amended: every chunk is at most max_chunk_size long unless it is a
\* single whitespace-free word: a word of the input up to its end
\* punctuation, at most one character (the appended period) longer than
\* that input word.
C2_ChunkSizeUpToPeriod ==
    seg_pc = "chunks" =>
        \A i \in 1..Len(result) :
            \/ Len(result[i]) <= max_chunk_size
            \/ /\ ~HasSpace(result[i])
               /\ \E j \in 1..Len(InputWords) :
                      /\ Len(result[i]) <= Len(InputWords[j]) + 1
                      /\ Core(InputWords[j]) = Core(result[i])

C2_Witness ==
    /\ SplitPath
    /\ Len(result) >= 2
    /\ Len(result[1]) <= max_chunk_size
    /\ \E i \in 1..Len(result) : Len(result[i]) = max_chunk_size + 1
    /\ \A j \in 1..Len(InputWords) : Len(InputWords[j]) <= max_chunk_size

\* C3 as stated: on the splitting path the words of the chunks, in order,
\* are the whitespace-delimited words of the input, in order, up to
\* terminator characters at the word ends.
C3_Original ==
    (SplitPath /\ text # << >>) => Cores(ChunkWords) = Cores(InputWords)

\* C3 amended: the same, except that an input token made only of
\* terminator characters may disappear: the words that are left once
\* trailing terminators are removed are the same, in the same order.
C3_WordsPreserved ==
    (SplitPath /\ text # << >>) =>
        SelectSeq(Cores(ChunkWords), NonEmpty) = SelectSeq(Cores(InputWords), NonEmpty)

C3_Witness ==
    /\ SplitPath
    /\ Len(result) >= 2
    /\ Len(InputWords) >= 3
    /\ \E j \in 1..Len(InputWords) : Core(InputWords[j]) = << >>
    /\ InputWords[1] # InputWords[Len(InputWords)]
    /\ Len(ChunkWords) < Len(InputWords)

FirstWord(chunk) == split(chunk)[1]

\* C4: _split_by_words keeps the words in order, joins them with single
\* spaces, closes a chunk only when the next word does not fit, and every
\* chunk is at most max_chunk_size long unless it is one single word that
\* is itself longer than max_chunk_size.
C4_SplitByWordsGreedy ==
    seg_pc = "words" =>
        /\ ChunkWords = InputWords
        /\ \A i \in 1..Len(result) :
              /\ result[i] = join(split(result[i]))
              /\ \/ Len(result[i]) <= max_chunk_size
                 \/ /\ ~HasSpace(result[i])
                    /\ \E j \in 1..Len(InputWords) : InputWords[j] = result[i]
        /\ \A i \in 1..(Len(result) - 1) :
              Len(result[i]) + 1 + Len(FirstWord(result[i + 1])) > max_chunk_size

C4_Witness ==
    /\ seg_pc = "words"
    /\ Len(result) >= 2
    /\ \E i \in 1..Len(result) : Len(result[i]) > max_chunk_size
    /\ \E i \in 1..Len(result) : Len(result[i]) <= max_chunk_size
    /\ Len(InputWords) >= 3

\* C5 as stated: the empty text yields the empty sequence of chunks.
C5_Original ==
    (seg_pc = "chunks" /\ text = << >>) => result = << >>

\* C5 amended: the empty text yields one chunk, the empty text itself.
C5_EmptyTextIsOneEmptyChunk ==
    (seg_pc = "chunks" /\ text = << >>) => (Len(result) = 1 /\ result[1] = << >>)

C5_Witness ==
    seg_pc = "chunks" /\ text = << >> /\ Len(result) = 1

(* --------------------- text_to_speech properties ---------------------- *)

Last(s) == s[Len(s)]

AllIn(s, S) == \A j \in 1..Len(s) : s[j] \in S

OtherFailures == {"canceled_other", "failed", "exception"}

Failures == OtherFailures \cup {"rate_limited", "write_error"}

TtsOver == tts_pc \in {"returned", "raised"}

\* C6: when the first k attempts (k < retry_count) are rate-limited, attempt
\* k + 1 is made, and when it succeeds the call is over after these k + 1
\* attempts, it returns True and the output file has been written once.
C6_RateLimitedThenSuccess ==
    /\ (AllIn(outcomes, {"rate_limited"}) /\ Len(outcomes) < retry_count) =>
           (tts_pc = "attempt" /\ attempt = Len(outcomes))
    /\ (/\ outcomes # << >>
        /\ Last(outcomes) = "completed"
        /\ AllIn(SubSeq(outcomes, 1, Len(outcomes) - 1), {"rate_limited"})) =>
           /\ tts_pc = "returned"
           /\ tts_ret = "true"
           /\ attempt = Len(outcomes) - 1
           /\ written = <<output_path>>

C6_Witness ==
    /\ retry_count = 3
    /\ outcomes = <<"rate_limited", "rate_limited", "completed">>
    /\ waits = <<5, 10>>
    /\ tts_ret = "true"
    /\ written = <<output_path>>

\* C7: when every attempt fails other than by rate limiting, the next
\* attempt is made as long as fewer than retry_count have been made, after
\* retry_count attempts the failure is raised to the caller, no further
\* attempt is made, and the output file is never written.
C7_FailuresExhaustAndRaise ==
    AllIn(outcomes, OtherFailures) =>
        /\ written = << >>
        /\ Len(outcomes) <= retry_count
        /\ Len(outcomes) < retry_count => (tts_pc = "attempt" /\ attempt = Len(outcomes))
        /\ Len(outcomes) = retry_count => (tts_pc = "raised" /\ tts_ret = "raised")

C7_Witness ==
    /\ retry_count = 3
    /\ outcomes = <<"canceled_other", "failed", "exception">>
    /\ tts_pc = "raised"
    /\ written = << >>

\* C8: a call that has used up all retry_count attempts on failures of any
\* kind, rate-limited ones included, ends by raising.
C8_ExhaustionRaises ==
    (TtsOver /\ Len(outcomes) = retry_count /\ AllIn(outcomes, Failures)) =>
        tts_ret = "raised"

\* C9: an attempt whose synthesis result is None ends the call at once with
\* False: nothing raised, no wait for that attempt, no further attempt and no
\* file written, however many attempts are left.
C9_NullResultReturnsFalse ==
    (outcomes # << >> /\ Last(outcomes) = "null") =>
        /\ tts_pc = "returned"
        /\ tts_ret = "false"
        /\ attempt = Len(outcomes) - 1
        /\ Len(waits) = Len(outcomes) - 1
        /\ written = << >>

C9_Witness ==
    /\ retry_count = 3
    /\ outcomes = <<"rate_limited", "null">>
    /\ tts_ret = "false"
    /\ waits = <<5>>

(* -------------------- chunked conversion properties ------------------- *)

Chunks(chapter_text) == split_text_into_chunks(chapter_text, max_chunk_size)

CallsOfChapter(idx, chapter_text) ==
    [k \in 1..Len(Chunks(chapter_text)) |->
        <<OutputPath(idx, k - 1), Chunks(chapter_text)[k]>>]

RECURSIVE CallsFrom(_)
CallsFrom(i) ==
    IF i >= Len(chapters) THEN << >>
    ELSE CallsOfChapter(i, chapters[i + 1]) \o CallsFrom(i + 1)

\* The calls of text_to_speech a run owes: every chunk of every chapter it
\* is about, chapter by chapter and chunk by chunk.
ExpectedCalls ==
    IF entry = "all" THEN CallsFrom(0)
    ELSE IF chapters = << >> \/ chapter_index >= Len(chapters) THEN << >>
    ELSE CallsOfChapter(chapter_index, ChapterAt(chapter_index))

IsTtsEvent(e) == e[1] = "tts"

IsTrueReturn(e) == e[1] = "ret" /\ e[3] = "true"

CallsMade ==
    LET calls == SelectSeq(events, IsTtsEvent)
    IN  [k \in 1..Len(calls) |-> <<calls[k][2], calls[k][3]>>]

PathsReturnedTrue ==
    LET rets == SelectSeq(events, IsTrueReturn)
    IN  [k \in 1..Len(rets) |-> rets[k][2]]

IsPrefix(s, t) == Len(s) <= Len(t) /\ s = SubSeq(t, 1, Len(s))

\* The runs C10 is about: convert_all_chapters_chunked, and
\* convert_chapter_chunked with an index the chapter list can be read at.
SelectsChapters ==
    /\ orch_pc # "idle"
    /\ entry = "chapter" => chapter_index >= -Len(chapters)

OrchDone == orch_pc = "done"

C10_Safety ==
    SelectsChapters =>
        /\ orch_pc # "raised"
        /\ IsPrefix(CallsMade, ExpectedCalls)
        /\ OrchDone => (CallsMade = ExpectedCalls /\ returned = PathsReturnedTrue)

\* C10: whatever text_to_speech does for each chunk (True, False, raise),
\* the calls made are every chunk of every chapter, once each, chapter by
\* chapter and chunk by chunk; the run comes to its end; and the list it
\* returns holds, in that order, the paths of the calls that returned True.
C10_EveryChunkOnceAndCompletes ==
    /\ [] C10_Safety
    /\ SelectsChapters ~> OrchDone

C10_Witness ==
    /\ OrchDone
    /\ entry = "all"
    /\ Len(chapters) = 2
    /\ Len(CallsMade) >= 3
    /\ \E k \in 1..Len(events) : events[k][1] = "ret" /\ events[k][3] = "raised"
    /\ \E k \in 1..Len(events) : events[k][1] = "ret" /\ events[k][3] = "false"
    /\ Len(returned) = 1
    /\ returned[1] = OutputPath(1, 0)

(* ------------------------- chapter selection -------------------------- *)

\* C11: convert_chapter_chunked called with an index that is no position of
\* the chapter list (index >= number of chapters, or index < 0) does not
\* raise, calls text_to_speech for no chunk, writes no file and returns the
\* empty list.
C11_BadIndexReturnsEmpty ==
    (entry = "chapter" /\ (chapter_index >= Len(chapters) \/ chapter_index < 0)) =>
        /\ orch_pc # "raised"
        /\ CallsMade = << >>
        /\ written = << >>
        /\ OrchDone => returned = << >>

(* ------------------- more segmenter properties ------------------------ *)

IsBlank(s) == strip(s) = << >>

\* C12: for a text longer than max_chunk_size no chunk of
\* split_text_into_chunks is empty or made of whitespace only, and no chunk
\* of _split_by_words ever is.
C12_NoBlankChunk ==
    (SplitPath \/ seg_pc = "words") =>
        \A i \in 1..Len(result) : ~IsBlank(result[i])

C12_Witness ==
    /\ SplitPath
    /\ Len(result) >= 2
    /\ IsSpace(text[1])
    /\ \E k \in 1..Len(re_split(text)) : IsBlank(re_split(text)[k])
    /\ \A i \in 1..Len(result) : ~IsBlank(result[i])

IsTrimmed(s) == s = << >> \/ (~IsSpace(s[1]) /\ ~IsSpace(s[Len(s)]))

\* C13 as stated: every chunk split_text_into_chunks returns, for any text
\* and any max_chunk_size, has no leading and no trailing whitespace.
C13_Original ==
    seg_pc = "chunks" => \A i \in 1..Len(result) : IsTrimmed(result[i])

\* C13: every chunk split_text_into_chunks returns is whitespace-trimmed,
\* except the single chunk of a text no longer than max_chunk_size, which is
\* the text itself with whatever whitespace it begins or ends with.
C13_TrimmedUnlessShortText ==
    seg_pc = "chunks" =>
        \A i \in 1..Len(result) :
            \/ IsTrimmed(result[i])
            \/ Len(text) <= max_chunk_size /\ result = <<text>>

C13_Witness ==
    /\ SplitPath
    /\ text \in BookTexts
    /\ ~IsTrimmed(text)
    /\ Len(result) >= 2
    /\ \A i \in 1..Len(result) : IsTrimmed(result[i])

\* The sentence candidates the splitting path packs: the pieces between
\* terminator-plus-whitespace separators, trimmed, blank ones left out.
Candidates ==
    LET pieces == re_split(text)
    IN  SelectSeq([k \in 1..Len(pieces) |-> strip(pieces[k])], NonEmpty)

WithTerminator(s) ==
    IF s[Len(s)] \in {".", "?", "!"} THEN s ELSE s \o <<".">>

RECURSIVE WordsOfAll(_)
WordsOfAll(ss) ==
    IF ss = << >> THEN << >>
    ELSE split(WithTerminator(Head(ss))) \o WordsOfAll(Tail(ss))

\* c is made of consecutive words of an oversized sentence, its last word
\* not among them.
NonFinalPiece(c) ==
    \E k \in 1..Len(Candidates) :
        LET ws == split(WithTerminator(Candidates[k]))
        IN  /\ Len(WithTerminator(Candidates[k])) > max_chunk_size
            /\ \E a \in 1..(Len(ws) - 1) : \E b \in a..(Len(ws) - 1) :
                   c = join(SubSeq(ws, a, b))

\* C14: on the splitting path every sentence candidate is packed ending in
\* a terminator, its own if it still ends in one and an appended period
\* otherwise (so a sentence cut at a single "!" or U+061F plus whitespace comes
\* out ending in "."), and every chunk ends in a terminator unless it is a
\* non-final piece of a sentence that was split by words.
C14_SentencesEndInTerminator ==
    SplitPath =>
        /\ ChunkWords = WordsOfAll(Candidates)
        /\ \A i \in 1..Len(result) :
               endswith_terminator(result[i]) \/ NonFinalPiece(result[i])

C14_Witness ==
    /\ SplitPath
    /\ \E k \in 2..(Len(text) - 1) :
           /\ text[k] \in {"!", "?"}
           /\ text[k - 1] \notin Terminators
           /\ IsSpace(text[k + 1])
    /\ \A i \in 1..Len(result) : \A j \in 1..Len(result[i]) : result[i][j] \notin {"!", "?"}
    /\ \E i \in 1..Len(result) : ~endswith_terminator(result[i])
    /\ endswith_terminator(result[Len(result)])

\* C15: every rate-limited attempt, of 0-based index a, is followed by a
\* wait of (a + 1) * 5 seconds and then by another synthesis attempt.
C15_RateLimitWaitThenRetry ==
    \A j \in 1..Len(outcomes) :
        outcomes[j] = "rate_limited" =>
            /\ Len(waits) >= j
            /\ waits[j] = ((j - 1) + 1) * 5
            /\ j < Len(outcomes) \/ (tts_pc = "attempt" /\ attempt < retry_count)

\* C16: after an attempt of 0-based index a that failed other than by rate
\* limiting, or raised: when a < retry_count - 1 the wait is (a + 1) * 2
\* seconds and the next attempt follows; when a = retry_count - 1 there is
\* no wait and the failure is raised to the caller.
C16_RetryWaitOrReraise ==
    \A j \in 1..Len(outcomes) :
        outcomes[j] \in OtherFailures \cup {"write_error"} =>
            IF j - 1 < retry_count - 1
            THEN /\ Len(waits) >= j
                 /\ waits[j] = ((j - 1) + 1) * 2
                 /\ j < Len(outcomes) \/ (tts_pc = "attempt" /\ attempt = j)
            ELSE /\ j = Len(outcomes)
                 /\ Len(waits) = j - 1
                 /\ tts_pc = "raised"
                 /\ tts_ret = "raised"

C16_Witness ==
    /\ retry_count = 3
    /\ outcomes = <<"failed", "exception", "canceled_other">>
    /\ waits = <<2, 4>>
    /\ tts_pc = "raised"

\* C17: an attempt whose synthesis completed and whose file write failed is
\* the last attempt of the call: the failure is raised at once, without a
\* wait for that attempt.
C17_WriteFailureNotRetried ==
    \A j \in 1..Len(outcomes) :
        outcomes[j] = "write_error" =>
            /\ j = Len(outcomes)
            /\ Len(waits) = j - 1
            /\ tts_pc = "raised"

(* ------------------------------ pacing -------------------------------- *)

\* Two output paths of the same chunk loop: of the same chapter, or both of
\* the whole book.
SameLoop(p, q) == Len(p) = Len(q) /\ (Len(p) = 4 => p[2] = q[2])

\* C18: in the chunk loops of convert_chapter_chunked and
\* convert_entire_book_chunked, the end of a text_to_speech call (True, False
\* or raised) is followed by a sleep of 1 second before the text_to_speech
\* call of the next chunk starts.
C18_SleepBetweenCalls ==
    \A k \in 1..Len(events) : \A m \in (k + 1)..Len(events) :
        (/\ events[k][1] = "ret"
         /\ events[m][1] = "tts"
         /\ SameLoop(events[k][2], events[m][2])) =>
            events[k + 1] = <<"sleep", 1>>

====
